---- MODULE Spec2Model ----
(***************************************************************************)
(* Model of notebooks/load_cleaned_dataset.py: get_cleaned_df() locates    *)
(* the "*_cleaned.csv" file of the dataset directory, parses it with       *)
(* pandas.read_csv and enforces the column types in _set_types().          *)
(*                                                                         *)
(* File names are sequences of one-character strings, so that endswith()   *)
(* is computed.  A cell of the CSV file is its text; read_csv's dtype      *)
(* inference and the astype()/to_datetime() conversions are computed on    *)
(* tagged values.  Floating point numbers are held in tenths.              *)
(***************************************************************************)
EXTENDS Integers, Sequences, FiniteSets, TLC

VARIABLES
    dirExists,         \* environment: the dataset directory can be listed
    dirEntries,        \* environment: the names in the dataset directory
    content,           \* environment: the content of the cleaned CSV file
    call,              \* number of the running call of get_cleaned_df
    pc,                \* statement the running call is at
    files,             \* local `files`
    cleaned_files,     \* local `cleaned_files`
    cleaned_csv_path,  \* local `cleaned_csv_path`
    opened,            \* the path handed to pd.read_csv
    df,                \* local `df` (the table object, typed in place)
    exc,               \* the exception raised inside the try block
    printed,           \* the lines the running call has printed
    outcome,           \* "running", "returned" (return df) or "raised"
    propagated,        \* type of the exception the caller receives
    selections         \* the file name each call so far has selected

vars == <<dirExists, dirEntries, content, call, pc, files, cleaned_files,
          cleaned_csv_path, opened, df, exc, printed, outcome, propagated,
          selections>>

----------------------------------------------------------------------------
(* Bounds *)

MaxRows == 2
MaxCalls == 2

----------------------------------------------------------------------------
(* File names and the directory *)

DatasetDir == "../data/raw/nyc-yellow-taxi-trip-records-january-2024"

Suffix == <<"_", "c", "l", "e", "a", "n", "e", "d", ".", "c", "s", "v">>

NameA == <<"a">> \o Suffix
NameB == <<"b">> \o Suffix
NameUpper == <<"x", "_", "C", "L", "E", "A", "N", "E", "D", ".", "c", "s", "v">>
NameExtUpper == <<"x", "_", "c", "l", "e", "a", "n", "e", "d", ".", "C", "S", "V">>
NameBak == <<"x">> \o Suffix \o <<".", "b", "a", "k">>

NamePool == {NameA, NameB, NameUpper, NameExtUpper, NameBak}

\* a mutant of EndsWith: the suffix is looked for anywhere in the name
ContainsStr(f, s) ==
    \E i \in 1..Len(f) : i + Len(s) - 1 <= Len(f) /\ SubSeq(f, i, i + Len(s) - 1) = s

\* str.endswith
EndsWith(f, s) ==
    Len(f) >= Len(s) /\ SubSeq(f, Len(f) - Len(s) + 1, Len(f)) = s

\* os.path.join(dataset_dir, name)
Join(d, f) == [dir |-> d, name |-> f]

NoPath == Join("", <<>>)

\* the orders os.listdir may return the entries in
Listings(S) ==
    {s \in [1..Cardinality(S) -> S] : \A i, j \in 1..Cardinality(S) : i # j => s[i] # s[j]}

\* [f for f in files if f.endswith('_cleaned.csv')]
CleanedFiles(fs) == SelectSeq(fs, LAMBDA f : EndsWith(f, Suffix))

----------------------------------------------------------------------------
(* Columns *)

PickupCol == "tpep_pickup_datetime"
DropoffCol == "tpep_dropoff_datetime"
FlagCol == "store_and_fwd_flag"
OtherCol == "pickup_hour"      \* a column of the file outside the type map

int_features ==
    <<"VendorID", "passenger_count", "RatecodeID",
      "PULocationID", "DOLocationID", "payment_type">>

float_features ==
    <<"trip_distance", "fare_amount", "extra", "mta_tax",
      "tip_amount", "tolls_amount", "improvement_surcharge",
      "total_amount", "congestion_surcharge", "Airport_fee",
      "fare_per_mile", "trip_duration">>

Range(s) == {s[i] : i \in 1..Len(s)}

MappedColumns == {PickupCol, DropoffCol, FlagCol} \cup Range(int_features) \cup Range(float_features)
AllColumns == MappedColumns \cup {OtherCol}

\* the "Final Data Type Map" of _set_types' docstring
DeclaredType(c) ==
    IF c \in {"tpep_pickup_datetime", "tpep_dropoff_datetime"} THEN "datetime64[ns]"
    ELSE IF c \in {"VendorID", "passenger_count", "RatecodeID", "PULocationID",
                   "DOLocationID", "payment_type"} THEN "int64"
    ELSE IF c \in {"trip_distance", "fare_amount", "extra", "mta_tax", "tip_amount",
                   "tolls_amount", "improvement_surcharge", "total_amount",
                   "congestion_surcharge", "Airport_fee", "fare_per_mile",
                   "trip_duration"} THEN "float64"
    ELSE IF c = "store_and_fwd_flag" THEN "category"
    ELSE "unmapped"

----------------------------------------------------------------------------
(* Values *)

IntV(n) == [k |-> "int", n |-> n, s |-> ""]
FloatV(t) == [k |-> "float", n |-> t, s |-> ""]       \* t is in tenths
StrV(x) == [k |-> "str", n |-> 0, s |-> x]
TsV(m, u) == [k |-> "ts", n |-> m, s |-> u]
NaN == [k |-> "nan", n |-> 0, s |-> ""]
NaT == [k |-> "nat", n |-> 0, s |-> ""]

\* texts read_csv takes for a missing value (a part of its default na_values)
NAValues == {"", "NA", "NaN", "null"}

\* integer literals and their values
IntLit == ("0" :> 0) @@ ("1" :> 1) @@ ("2" :> 2)

\* floating point literals and their values, in tenths
FloatLit == ("0.5" :> 5) @@ ("1.0" :> 10) @@ ("1.5" :> 15) @@ ("2.5" :> 25) @@ ("12.5" :> 125)

\* timestamp texts and their instants, in minutes since 2024-01-01 00:00:00
TsLit == ("2024-01-05 10:15:00" :> 6375) @@ ("2024-01-05 10:45:00" :> 6405)

\* float -> int: the fraction is cut off (towards zero)
Trunc(t) == IF t >= 0 THEN t \div 10 ELSE -((-t) \div 10)

Column(d, v) == [dtype |-> d, vals |-> v]

Conv(o, c) == [ok |-> o, col |-> c]

----------------------------------------------------------------------------
(* pandas: read_csv's dtype inference and the conversions of _set_types *)

IsNA(t) == t \in NAValues
IsIntText(t) == t \in DOMAIN IntLit
IsNumText(t) == t \in DOMAIN IntLit \/ t \in DOMAIN FloatLit
NumTenths(t) == IF t \in DOMAIN IntLit THEN 10 * IntLit[t] ELSE FloatLit[t]

\* the column read_csv builds from the texts of one column: int64 when every
\* cell is an integer literal, float64 when every cell is a number or missing,
\* object (the texts themselves, NaN for a missing cell) otherwise
ReadCsvColumn(texts) ==
    LET n == Len(texts)
        present == {i \in 1..n : ~IsNA(texts[i])}
    IN  IF n = 0 THEN Column("object", <<>>)
        ELSE IF present = 1..n /\ \A i \in present : IsIntText(texts[i])
        THEN Column("int64", [i \in 1..n |-> IntV(IntLit[texts[i]])])
        ELSE IF \A i \in present : IsNumText(texts[i])
        THEN Column("float64",
                    [i \in 1..n |-> IF i \in present THEN FloatV(NumTenths(texts[i])) ELSE NaN])
        ELSE Column("object",
                    [i \in 1..n |-> IF i \in present THEN StrV(texts[i]) ELSE NaN])

\* pd.read_csv on a readable file: one column per header name, one value per data row
ReadCsvTable(file) ==
    [c \in file.header |->
        ReadCsvColumn([i \in 1..Len(file.rows) |-> file.rows[i][c]])]

\* pd.to_datetime(series), errors='raise'
DatetimeOk(v) ==
    \/ v.k \in {"nan", "nat", "ts", "int", "float"}
    \/ v.k = "str" /\ v.s \in DOMAIN TsLit

DatetimeOf(v) ==
    IF v.k \in {"nan", "nat"} THEN NaT
    ELSE IF v.k = "ts" THEN v
    ELSE IF v.k = "str" THEN TsV(TsLit[v.s], "minutes since 2024-01-01")
    ELSE IF v.k = "int" THEN TsV(v.n, "ns since epoch")
    ELSE TsV(Trunc(v.n), "ns since epoch")

ToDatetime(col) ==
    IF \A i \in 1..Len(col.vals) : DatetimeOk(col.vals[i])
    THEN Conv(TRUE, Column("datetime64[ns]",
                           [i \in 1..Len(col.vals) |-> DatetimeOf(col.vals[i])]))
    ELSE Conv(FALSE, col)

\* a mutant of AstypeInt64: a float64 column is left as it is
AstypeInt64KeepFloat(col) ==
    IF col.dtype = "float64" THEN Conv(TRUE, col)
    ELSE IF \A i \in 1..Len(col.vals) :
               \/ col.vals[i].k = "int"
               \/ col.vals[i].k = "str" /\ IsIntText(col.vals[i].s)
    THEN Conv(TRUE, Column("int64",
             [i \in 1..Len(col.vals) |->
                 IF col.vals[i].k = "int" THEN col.vals[i]
                 ELSE IntV(IntLit[col.vals[i].s])]))
    ELSE Conv(FALSE, col)

\* a mutant of AstypeInt64: a float is rounded up instead of cut off
AstypeInt64Ceil(col) ==
    IF \A i \in 1..Len(col.vals) :
           \/ col.vals[i].k \in {"int", "float"}
           \/ col.vals[i].k = "str" /\ IsIntText(col.vals[i].s)
    THEN Conv(TRUE, Column("int64",
             [i \in 1..Len(col.vals) |->
                 IF col.vals[i].k = "int" THEN col.vals[i]
                 ELSE IF col.vals[i].k = "float" THEN IntV((col.vals[i].n + 9) \div 10)
                 ELSE IntV(IntLit[col.vals[i].s])]))
    ELSE Conv(FALSE, col)

\* series.astype('int64'): NaN cannot be cast, a float loses its fraction,
\* a text must be an integer literal (int(text))
AstypeInt64(col) ==
    IF \A i \in 1..Len(col.vals) :
           \/ col.vals[i].k \in {"int", "float"}
           \/ col.vals[i].k = "str" /\ IsIntText(col.vals[i].s)
    THEN Conv(TRUE, Column("int64",
             [i \in 1..Len(col.vals) |->
                 IF col.vals[i].k = "int" THEN col.vals[i]
                 ELSE IF col.vals[i].k = "float" THEN IntV(Trunc(col.vals[i].n))
                 ELSE IntV(IntLit[col.vals[i].s])]))
    ELSE Conv(FALSE, col)

\* a mutant of AstypeFloat64: a text that is no number becomes NaN (errors='coerce')
AstypeFloat64Coerce(col) ==
    Conv(TRUE, Column("float64",
         [i \in 1..Len(col.vals) |->
             IF col.vals[i].k = "int" THEN FloatV(10 * col.vals[i].n)
             ELSE IF col.vals[i].k = "float" THEN col.vals[i]
             ELSE IF col.vals[i].k = "str" /\ IsNumText(col.vals[i].s)
             THEN FloatV(NumTenths(col.vals[i].s))
             ELSE NaN]))

\* a mutant of AstypeFloat64: the rows holding NaN are dropped
AstypeFloat64DropNa(col) ==
    IF \A i \in 1..Len(col.vals) :
           \/ col.vals[i].k \in {"int", "float", "nan"}
           \/ col.vals[i].k = "str" /\ IsNumText(col.vals[i].s)
    THEN Conv(TRUE, Column("float64",
             LET kept == SelectSeq(col.vals, LAMBDA v : v.k # "nan")
             IN  [i \in 1..Len(kept) |->
                     IF kept[i].k = "int" THEN FloatV(10 * kept[i].n)
                     ELSE IF kept[i].k = "float" THEN kept[i]
                     ELSE FloatV(NumTenths(kept[i].s))]))
    ELSE Conv(FALSE, col)

\* series.astype('float64'): NaN stays NaN, a text must be a number (float(text))
AstypeFloat64(col) ==
    IF \A i \in 1..Len(col.vals) :
           \/ col.vals[i].k \in {"int", "float", "nan"}
           \/ col.vals[i].k = "str" /\ IsNumText(col.vals[i].s)
    THEN Conv(TRUE, Column("float64",
             [i \in 1..Len(col.vals) |->
                 IF col.vals[i].k = "int" THEN FloatV(10 * col.vals[i].n)
                 ELSE IF col.vals[i].k \in {"float", "nan"} THEN col.vals[i]
                 ELSE FloatV(NumTenths(col.vals[i].s))]))
    ELSE Conv(FALSE, col)

\* series.astype('category'): the values become the categories; it cannot fail
AstypeCategory(col) == Conv(TRUE, Column("category", col.vals))

\* the conversion a statement of _set_types applies to a column
Convert(kind, col) ==
    CASE kind = "to_datetime" -> ToDatetime(col)
      [] kind = "int64" -> AstypeInt64(col)
      [] kind = "float64" -> AstypeFloat64(col)
      [] kind = "category" -> AstypeCategory(col)

\* a mutant of SetColumns: each column is assigned as soon as it is converted
SetColumnsEach(cols, features, kind) ==
    IF \E i \in 1..Len(features) : features[i] \notin DOMAIN cols
    THEN [ok |-> FALSE, type |-> "KeyError", cols |-> cols]
    ELSE [ok |-> \A i \in 1..Len(features) : Convert(kind, cols[features[i]]).ok,
          type |-> "ValueError",
          cols |-> [c \in DOMAIN cols |->
                       IF c \in Range(features) THEN Convert(kind, cols[c]).col ELSE cols[c]]]

\* df[features] = convert(df[features]): the right-hand side is evaluated first
\* (KeyError for a missing column, ValueError for a value that cannot be
\* converted) and only then are the columns assigned
SetColumns(cols, features, kind) ==
    IF \E i \in 1..Len(features) : features[i] \notin DOMAIN cols
    THEN [ok |-> FALSE, type |-> "KeyError", cols |-> cols]
    ELSE IF \E i \in 1..Len(features) : ~Convert(kind, cols[features[i]]).ok
    THEN [ok |-> FALSE, type |-> "ValueError", cols |-> cols]
    ELSE [ok |-> TRUE, type |-> "",
          cols |-> [c \in DOMAIN cols |->
                       IF c \in Range(features) THEN Convert(kind, cols[c]).col ELSE cols[c]]]

----------------------------------------------------------------------------
(* The files the load is run on *)

\* a data row of the cleaned file
CleanRow ==
    [c \in AllColumns |->
        CASE c = "tpep_pickup_datetime" -> "2024-01-05 10:15:00"
          [] c = "tpep_dropoff_datetime" -> "2024-01-05 10:45:00"
          [] c = "store_and_fwd_flag" -> "N"
          [] c \in {"VendorID", "RatecodeID", "payment_type", "extra",
                    "improvement_surcharge", "pickup_hour"} -> "1"
          [] c \in {"PULocationID", "DOLocationID"} -> "2"
          [] c \in {"passenger_count"} -> "1.0"
          [] c \in {"tolls_amount", "Airport_fee"} -> "0"
          [] c \in {"mta_tax"} -> "0.5"
          [] c \in {"trip_distance", "trip_duration"} -> "1.5"
          [] c \in {"tip_amount", "congestion_surcharge", "fare_per_mile"} -> "2.5"
          [] OTHER -> "12.5"]

\* the cells a row may differ from CleanRow in: a missing value, a text that is
\* no value of the column's type, a fraction in an integer column
Deviations ==
    { <<"tpep_pickup_datetime", "">>,
      <<"tpep_pickup_datetime", "not a date">>,
      <<"tpep_dropoff_datetime", "not a date">>,
      <<"VendorID", "">>,
      <<"VendorID", "1.5">>,
      <<"payment_type", "abc">>,
      <<"fare_amount", "abc">>,
      <<"fare_amount", "">>,
      <<"store_and_fwd_flag", "Y">>,
      <<"pickup_hour", "2">> }

Rows == {CleanRow} \cup {[CleanRow EXCEPT ![d[1]] = d[2]] : d \in Deviations}

RowSeqs == UNION {[1..n -> Rows] : n \in 0..MaxRows}

\* the headers: every column, or one column of a statement of _set_types missing
Headers ==
    {AllColumns} \cup
    {AllColumns \ {c} : c \in {"tpep_pickup_datetime", "payment_type", "store_and_fwd_flag"}}

File(h, rs) ==
    [readable |-> TRUE, header |-> h,
     rows |-> [i \in 1..Len(rs) |-> [c \in h |-> rs[i][c]]]]

\* a file read_csv cannot read or parse
Unreadable == [readable |-> FALSE, header |-> {}, rows |-> <<>>]

Files == {File(h, rs) : h \in Headers, rs \in RowSeqs}

CleanFile == File(AllColumns, <<CleanRow>>)

Unbound == [bound |-> FALSE, cols |-> [c \in {} |-> Column("object", <<>>)]]
Bound(cols) == [bound |-> TRUE, cols |-> cols]

NoExc == [type |-> "", msg |-> "", at |-> ""]
Exc(t, m, a) == [type |-> t, msg |-> m, at |-> a]

TypeSteps == {"pickup", "dropoff", "int", "float", "category"}

----------------------------------------------------------------------------
(* get_cleaned_df *)

Locals ==
    /\ pc = "listdir"
    /\ files = <<>>
    /\ cleaned_files = <<>>
    /\ cleaned_csv_path = NoPath
    /\ opened = NoPath
    /\ df = Unbound
    /\ exc = NoExc
    /\ printed = <<>>
    /\ outcome = "running"
    /\ propagated = ""

Init ==
    /\ \/ /\ dirExists \in BOOLEAN
          /\ dirEntries \in (IF dirExists THEN SUBSET NamePool ELSE {{}})
          /\ content \in {CleanFile, Unreadable}
       \/ /\ dirExists = TRUE
          /\ dirEntries = {NameA}
          /\ content \in Files
    /\ call = 1
    /\ selections = <<>>
    /\ Locals

Raise(e) ==
    /\ exc' = e
    /\ pc' = "except"

\* files = os.listdir(dataset_dir); cleaned_files = [...]
ListDir ==
    /\ pc = "listdir"
    /\ \/ /\ ~dirExists
          /\ Raise(Exc("FileNotFoundError", "No such file or directory", "listdir"))
          /\ UNCHANGED <<files, cleaned_files>>
       \/ /\ dirExists
          /\ \E l \in Listings(dirEntries) :
                /\ files' = l
                /\ cleaned_files' = CleanedFiles(l)
          /\ pc' = "select"
          /\ UNCHANGED exc
    /\ UNCHANGED <<dirExists, dirEntries, content, call, cleaned_csv_path, opened, df,
                   printed, outcome, propagated, selections>>

\* if not cleaned_files: raise ...; cleaned_csv_path = os.path.join(...); print
Select ==
    /\ pc = "select"
    /\ \/ /\ cleaned_files = <<>>
          /\ Raise(Exc("FileNotFoundError",
                       "No cleaned dataset found. Please run the cleaning notebook first.",
                       "select"))
          /\ UNCHANGED <<cleaned_csv_path, printed, selections>>
       \/ /\ cleaned_files # <<>>
          /\ cleaned_csv_path' = Join(DatasetDir, cleaned_files[1])
          /\ printed' = Append(printed, "Loading Dataset")
          /\ selections' = Append(selections, cleaned_files[1])
          /\ pc' = "read_csv"
          /\ UNCHANGED exc
    /\ UNCHANGED <<dirExists, dirEntries, content, call, files, cleaned_files, opened, df,
                   outcome, propagated>>

\* df = pd.read_csv(cleaned_csv_path); print
ReadCsv ==
    /\ pc = "read_csv"
    /\ opened' = cleaned_csv_path
    /\ \/ /\ ~content.readable
          /\ Raise(Exc("ParserError", "Error tokenizing data", "read_csv"))
          /\ UNCHANGED <<df, printed>>
       \/ /\ content.readable
          /\ df' = Bound(ReadCsvTable(content))
          /\ printed' = Append(printed, "Dataset Loaded Successfully")
          /\ pc' = "pickup"
          /\ UNCHANGED exc
    /\ UNCHANGED <<dirExists, dirEntries, content, call, files, cleaned_files,
                   cleaned_csv_path, outcome, propagated, selections>>

\* one statement of _set_types: df[features] = convert(df[features]), which
\* leaves in df the columns SetColumns has assigned, and the lines printed after it
SetStep(at, features, kind, next, lines) ==
    /\ LET r == SetColumns(df.cols, features, kind)
       IN  \/ /\ ~r.ok
              /\ df' = Bound(r.cols)
              /\ Raise(Exc(r.type, "cannot convert", at))
              /\ UNCHANGED printed
           \/ /\ r.ok
              /\ df' = Bound(r.cols)
              /\ printed' = printed \o lines
              /\ pc' = next
              /\ UNCHANGED exc
    /\ UNCHANGED <<dirExists, dirEntries, content, call, files, cleaned_files,
                   cleaned_csv_path, opened, outcome, propagated, selections>>

SetPickup ==
    /\ pc = "pickup"
    /\ SetStep("pickup", <<"tpep_pickup_datetime">>, "to_datetime", "dropoff", <<>>)

SetDropoff ==
    /\ pc = "dropoff"
    /\ SetStep("dropoff", <<"tpep_dropoff_datetime">>, "to_datetime", "int", <<>>)

SetInts ==
    /\ pc = "int"
    /\ SetStep("int", int_features, "int64", "float", <<>>)

SetFloats ==
    /\ pc = "float"
    /\ SetStep("float", float_features, "float64", "category", <<>>)

\* the last statement of _set_types and its prints
SetCategory ==
    /\ pc = "category"
    /\ SetStep("category", <<"store_and_fwd_flag">>, "category", "return",
               <<"Type enforcement complete">>)

\* except Exception as e: print(f"Error: {e}")
Except ==
    /\ pc = "except"
    /\ printed' = Append(printed, exc.msg)
    /\ pc' = "return"
    /\ UNCHANGED <<dirExists, dirEntries, content, call, files, cleaned_files,
                   cleaned_csv_path, opened, df, exc, outcome, propagated, selections>>

\* a mutant of ReturnOutcome: df is taken to be bound in every case
ReturnOutcomeAlways(d) == [outcome |-> "returned", propagated |-> ""]

\* return df: the name df is unbound when read_csv has not completed
ReturnOutcome(d) ==
    IF d.bound THEN [outcome |-> "returned", propagated |-> ""]
    ELSE [outcome |-> "raised", propagated |-> "UnboundLocalError"]

Return ==
    /\ pc = "return"
    /\ outcome' = ReturnOutcome(df).outcome
    /\ propagated' = ReturnOutcome(df).propagated
    /\ pc' = "done"
    /\ UNCHANGED <<dirExists, dirEntries, content, call, files, cleaned_files,
                   cleaned_csv_path, opened, df, exc, printed, selections>>

\* the caller calls get_cleaned_df() again; the directory and the file are unchanged
CallAgain ==
    /\ pc = "done"
    /\ call < MaxCalls
    /\ call' = call + 1
    /\ pc' = "listdir"
    /\ files' = <<>>
    /\ cleaned_files' = <<>>
    /\ cleaned_csv_path' = NoPath
    /\ opened' = NoPath
    /\ df' = Unbound
    /\ exc' = NoExc
    /\ printed' = <<>>
    /\ outcome' = "running"
    /\ propagated' = ""
    /\ UNCHANGED <<dirExists, dirEntries, content, selections>>

Next ==
    \/ ListDir
    \/ Select
    \/ ReadCsv
    \/ SetPickup
    \/ SetDropoff
    \/ SetInts
    \/ SetFloats
    \/ SetCategory
    \/ Except
    \/ Return
    \/ CallAgain

Spec == Init /\ [][Next]_vars

----------------------------------------------------------------------------
(* Properties *)

\* the table read_csv built, before any type enforcement
Parsed == ReadCsvTable(content)

\* a name made of some stem followed by "_cleaned.csv"
HasCleanedSuffix(name) ==
    \E k \in 0..Len(name) : name = SubSeq(name, 1, k) \o Suffix

\* a text that is neither a number nor a missing value
Malformed(t) == ~IsNA(t) /\ ~IsNumText(t)

\* the load went through without an exception and handed its table to the caller
Success == outcome = "returned" /\ exc = NoExc

\* the statement of _set_types that assigns column c
StepOf(c) ==
    IF c = "tpep_pickup_datetime" THEN 1
    ELSE IF c = "tpep_dropoff_datetime" THEN 2
    ELSE IF DeclaredType(c) = "int64" THEN 3
    ELSE IF DeclaredType(c) = "float64" THEN 4
    ELSE 5

StepIdx(at) ==
    CASE at = "pickup" -> 1
      [] at = "dropoff" -> 2
      [] at = "int" -> 3
      [] at = "float" -> 4
      [] at = "category" -> 5

\* the group of the type map column c is in
GroupOf(c) ==
    IF DeclaredType(c) = "datetime64[ns]" THEN 1
    ELSE IF DeclaredType(c) = "int64" THEN 2
    ELSE IF DeclaredType(c) = "float64" THEN 3
    ELSE 4

GroupIdx(at) ==
    CASE at \in {"pickup", "dropoff"} -> 1
      [] at = "int" -> 2
      [] at = "float" -> 3
      [] at = "category" -> 4

\* the number of statements of _set_types that have been executed
StepsDone ==
    IF exc.at \in TypeSteps THEN StepIdx(exc.at) - 1
    ELSE IF pc \in TypeSteps THEN StepIdx(pc) - 1
    ELSE 5

\* the value a text stands for in a column of the declared type
Coercible(type, t) ==
    CASE type = "datetime64[ns]" -> IsNA(t) \/ t \in DOMAIN TsLit
      [] type = "int64" -> IsNumText(t)
      [] type = "float64" -> IsNA(t) \/ IsNumText(t)
      [] type = "category" -> TRUE

Coerce(type, t) ==
    CASE type = "datetime64[ns]" ->
             IF IsNA(t) THEN NaT ELSE TsV(TsLit[t], "minutes since 2024-01-01")
      [] type = "int64" ->
             IF IsIntText(t) THEN IntV(IntLit[t]) ELSE IntV(Trunc(FloatLit[t]))
      [] type = "float64" ->
             IF IsNA(t) THEN NaN
             ELSE IF IsIntText(t) THEN FloatV(10 * IntLit[t]) ELSE FloatV(FloatLit[t])
      [] type = "category" ->
             IF IsNA(t) THEN NaN ELSE StrV(t)

AllCoercible ==
    /\ content.readable
    /\ MappedColumns \subseteq content.header
    /\ \A r \in 1..Len(content.rows) : \A c \in MappedColumns :
          Coercible(DeclaredType(c), content.rows[r][c])

\* C1: a load in which any step failed never hands a table to the caller.
C1_FailedLoadReturnsNoTable ==
    exc # NoExc => outcome # "returned"

\* C2: with no entry ending in "_cleaned.csv" in the directory, the caller
\* receives the "dataset not found" condition, and no file is parsed and no
\* type is coerced.
C2_NotFoundSignalled ==
    (pc = "done" /\ dirExists /\ ~\E f \in dirEntries : HasCleanedSuffix(f))
        => /\ propagated = "FileNotFoundError"
           /\ opened = NoPath
           /\ ~df.bound

\* C3: on every successful load each mapped column has its declared type (2
\* timestamp, 6 int64, 12 float64, 1 categorical column), and every other
\* column is as read_csv built it.
C3_DeclaredTypes ==
    Success =>
        /\ \A c \in MappedColumns :
              c \in DOMAIN df.cols /\ df.cols[c].dtype = DeclaredType(c)
        /\ Cardinality({c \in MappedColumns : df.cols[c].dtype = "datetime64[ns]"}) = 2
        /\ Cardinality({c \in MappedColumns : df.cols[c].dtype = "int64"}) = 6
        /\ Cardinality({c \in MappedColumns : df.cols[c].dtype = "float64"}) = 12
        /\ Cardinality({c \in MappedColumns : df.cols[c].dtype = "category"}) = 1
        /\ \A c \in DOMAIN df.cols \ MappedColumns : df.cols[c] = Parsed[c]

C3_Witness ==
    /\ Success
    /\ Len(content.rows) = MaxRows
    /\ Parsed["VendorID"].dtype = "float64"
    /\ Parsed["extra"].dtype = "int64"
    /\ OtherCol \in DOMAIN df.cols

\* C4: the calls made on an unchanged directory all select the same file,
\* whatever order each listing is in.
C4_SameFileSelected ==
    \A i, j \in DOMAIN selections : selections[i] = selections[j]

\* C5: a text that is no number in a float column of the parsed file never
\* becomes null or zero, and the load ends with a failure of the type
\* enforcement that has been printed.
C5_MalformedFloatReported ==
    \A c \in Range(float_features) \cap content.header :
        \A r \in 1..Len(content.rows) :
            (df.bound /\ Malformed(content.rows[r][c]))
                => /\ df.cols[c].vals[r] \notin {NaN, NaT, FloatV(0), IntV(0)}
                   /\ pc = "done" => /\ exc.at \in TypeSteps
                                     /\ exc.msg \in Range(printed)

C5_Witness ==
    /\ pc = "done"
    /\ exc.at = "float"
    /\ Len(content.rows) = MaxRows
    /\ Malformed(content.rows[MaxRows]["fare_amount"])
    /\ ~Malformed(content.rows[1]["fare_amount"])

\* C6: a returned table has one row for each data row of the file, in the
\* file's order.
C6_RowCount ==
    outcome = "returned" =>
        /\ \A c \in DOMAIN df.cols : Len(df.cols[c].vals) = Len(content.rows)
        /\ OtherCol \in DOMAIN df.cols =>
              \A r \in 1..Len(content.rows) :
                  df.cols[OtherCol].vals[r].k = "int" /\
                  df.cols[OtherCol].vals[r].n = IntLit[content.rows[r][OtherCol]]

C6_Witness ==
    /\ Success
    /\ Len(content.rows) = MaxRows
    /\ content.rows[1]["fare_amount"] = ""
    /\ content.rows[1][OtherCol] # content.rows[MaxRows][OtherCol]

\* C7: when every source text can be coerced to the declared type of its
\* column, each value of the returned table is the source text coerced to that
\* type, for every row and every mapped column.
C7_RoundTrip ==
    (outcome = "returned" /\ AllCoercible) =>
        \A c \in MappedColumns : \A r \in 1..Len(content.rows) :
            /\ Len(df.cols[c].vals) = Len(content.rows)
            /\ df.cols[c].vals[r] = Coerce(DeclaredType(c), content.rows[r][c])

C7_Witness ==
    /\ outcome = "returned"
    /\ AllCoercible
    /\ Len(content.rows) = MaxRows
    /\ content.rows[1]["VendorID"] = "1.5"
    /\ content.rows[MaxRows]["tpep_pickup_datetime"] = ""
    /\ df.cols["VendorID"].vals[1] = IntV(1)

\* C8: the file handed to read_csv is an entry of the dataset directory whose
\* name ends with exactly "_cleaned.csv", and the first such entry of the
\* listing.
C8_ParsedFileIsFirstMatch ==
    opened # NoPath =>
        /\ opened.dir = DatasetDir
        /\ opened.name \in dirEntries
        /\ HasCleanedSuffix(opened.name)
        /\ opened.name \notin {NameUpper, NameExtUpper, NameBak}
        /\ \E i \in 1..Len(files) :
              /\ files[i] = opened.name
              /\ \A j \in 1..(i - 1) : ~HasCleanedSuffix(files[j])

C8_Witness ==
    /\ opened # NoPath
    /\ opened.name = NameB
    /\ Len(files) = Cardinality(NamePool)
    /\ files[1] = NameBak
    /\ files[Len(files)] = NameA

\* C9: the call returns normally only if read_csv completed; after a failure
\* before that the exception has been printed and the caller receives the
\* unbound-variable error, not the exception that was raised.
C9_ReturnsOnlyIfParsed ==
    /\ outcome = "returned" => (df.bound /\ opened # NoPath /\ content.readable)
    /\ (pc = "done" /\ ~df.bound) =>
          /\ exc.at \in {"listdir", "select", "read_csv"}
          /\ exc.msg \in Range(printed)
          /\ outcome = "raised"
          /\ propagated = "UnboundLocalError"
          /\ propagated # exc.type

C9_Witness ==
    /\ pc = "done"
    /\ exc.at = "read_csv"
    /\ propagated = "UnboundLocalError"

\* C10 as stated: when the conversion of group k (timestamps, integers, floats,
\* categorical) fails, the columns of the groups before k are coerced and the
\* columns of group k and of the later groups are as parsed.
C10_GroupsAtomic ==
    exc.at \in TypeSteps =>
        \A c \in MappedColumns \cap DOMAIN df.cols :
            IF GroupOf(c) < GroupIdx(exc.at)
            THEN df.cols[c].dtype = DeclaredType(c)
            ELSE df.cols[c] = Parsed[c]

\* C10 amended: the assignments run in the order pickup, dropoff, integers,
\* floats, categorical; the columns of the assignments that have been executed
\* are coerced, and the columns of a failed assignment and of the later ones
\* are as parsed.
C10_StepsAtomic ==
    df.bound =>
        \A c \in MappedColumns \cap DOMAIN df.cols :
            IF StepOf(c) <= StepsDone
            THEN df.cols[c].dtype = DeclaredType(c)
            ELSE df.cols[c] = Parsed[c]

C10_Witness ==
    /\ pc = "done"
    /\ outcome = "returned"
    /\ exc.at = "int"
    /\ exc.type = "ValueError"
    /\ Parsed["passenger_count"].dtype = "float64"
    /\ df.cols["passenger_count"].dtype = "float64"
    /\ df.cols["tpep_dropoff_datetime"].dtype = "datetime64[ns]"

====
